---- MODULE Spec2Model ----
(***************************************************************************)
(* A model of the browser front end of the Lick searchable archive:        *)
(*   - determinePages, the page-control algorithm (frontend.js)            *)
(*   - buildObsDateSearchValues, the observation-date expansion            *)
(*   - the query / Download All flow against the archive backend           *)
(* Each part has its own specification over its own group of variables;    *)
(* the variables of the other groups are held at their initial value.      *)
(***************************************************************************)
EXTENDS Integers, Sequences, FiniteSets, TLC

VARIABLES
    \* ---- page controls (SpecPages) ----
    pgCurrent,      \* currentPage handed to determinePages
    pgTotal,        \* totalPages handed to determinePages
    pageList,       \* the list determinePages returned
    pgPc,           \* "input": nothing computed yet, "done": pageList is built
    pgBuilt,        \* a call of buildPageControls: its arguments and the controls
    \* ---- observation dates (SpecDate) ----
    dateSearchValues,   \* the non-empty values of search_value_obs_date_1/2
    dateResult,         \* what buildObsDateSearchValues returned for them
    datePc,             \* "input" or "done"
    \* ---- the main page: search form, results, downloads (Spec) ----
    form,               \* the controls of the search form
    inflight,           \* submitQuery calls suspended at await runQuery
    tableHidden,        \* resultsTable.hidden
    buttonsHidden,      \* the hidden attribute of the download buttons
    shownQuery,         \* the queryParams whose results the table shows
    latestQueryResults, \* the module variable of that name (<<>>: still null)
    resultsCount,       \* the text of the result count
    pageControls,       \* the page navigation buttons
    errorMessages,      \* the texts in the error banner
    dl,                 \* the downloadAll call, suspended or finished
    \* ---- the rows of the results table and their selection ----
    tableRows,          \* the filename each row of the table body shows
    resultCheckboxes,   \* the checked state of the module's resultCheckboxes
    resultHdrCheckbox,  \* the Select All checkbox: checked, indeterminate
    numRowsSelected,    \* the module variable of that name
    downloadSelectedDisabled,   \* the disabled attribute of Download Selected
    sel,                \* what the last downloadSelected call submitted
    answered,           \* the last answer to a query and the text it added,
                        \* and latest: the queryParams submitted last
    \* ---- the query built from the search form (SpecForm) ----
    builtQuery,         \* queryParams and queryURL of submitQuery, with the form read
    \* ---- login status, login and logout (SpecLogin) ----
    location,           \* the page whose script runs: "index" or "login"
    client,             \* LickArchiveClient: loginUser, apiCSRFToken, errorMessage
    loginoutButton,     \* the name of loginout_button: "login" or "logout"
    loginText,          \* the text of login_text on the login page
    calls,              \* the handlers suspended at an await of a backend call
    session,            \* the user the backend has logged in for this session
    issued,             \* the CSRF tokens the backend has returned so far
    lastPost,           \* the last POST the client sent
    tokenGet,           \* the last GET that login or logout issued for a token
    finished,           \* the last main-page handler that ran to its end
    \* ---- the database backup script (SpecBackup) ----
    backups,            \* the ages, in days, of the files in /pg_data/backups
    bkRun               \* the last run of the backup script

pgVars == <<pgCurrent, pgTotal, pageList, pgPc, pgBuilt>>
dateVars == <<dateSearchValues, dateResult, datePc>>
rowVars == <<tableRows, resultCheckboxes, resultHdrCheckbox, numRowsSelected,
             downloadSelectedDisabled, sel>>
uiVars == <<form, inflight, tableHidden, buttonsHidden, shownQuery,
            latestQueryResults, resultsCount, pageControls, errorMessages, dl,
            rowVars, answered>>

buildVars == <<builtQuery>>
loginVars == <<location, client, loginoutButton, loginText, calls, session, issued,
               lastPost, tokenGet, finished>>

bkVars == <<backups, bkRun>>

vars == <<pgVars, dateVars, uiVars, buildVars, loginVars, bkVars>>

\* a part that a specification does not exercise rests in its idle state
PagesIdle ==
    /\ pgTotal = 1
    /\ pgCurrent = 1
    /\ pageList = <<>>
    /\ pgPc = "idle"
    /\ pgBuilt = [built |-> FALSE, queryParams |-> <<>>, count |-> 0,
                  next |-> <<>>, previous |-> <<>>,
                  controls |-> [prev |-> "", pages |-> <<>>, current |-> 0, next |-> ""]]

DateIdle ==
    /\ dateSearchValues = <<>>
    /\ dateResult = <<>>
    /\ datePc = "idle"

BuildIdle ==
    builtQuery = [form |-> <<>>, queryParams |-> <<>>, queryURL |-> <<>>]

\* the backup directory before the first backup
BackupIdle ==
    /\ backups = {}
    /\ bkRun = [script |-> "", metadata |-> FALSE, django |-> FALSE,
                deleted |-> {}, kept |-> {}]

\* the main page with no login handler running and nobody logged in
LoginIdle ==
    /\ location = "index"
    /\ client = [loginUser |-> "", apiCSRFToken |-> "", errorMessage |-> ""]
    /\ loginoutButton = "login"
    /\ loginText = ""
    /\ calls = {}
    /\ session = ""
    /\ issued = {}
    /\ lastPost = [url |-> "", token |-> "", returned |-> FALSE]
    /\ tokenGet = [failed |-> FALSE, posted |-> FALSE, message |-> "", reported |-> ""]
    /\ finished = [handler |-> "", failures |-> {}, banner |-> <<>>]

(***************************************************************************)
(* Bounds of the model                                                     *)
(***************************************************************************)
\* largest totalPages explored
MaxPages == 30
\* the entered dates are the calendar dates of the days FirstDay ..
\* FirstDay + MaxDayOffset after 1970-01-01 (2019-12-25 .. 2020-03-04: a year
\* end, a month end and a leap day)
FirstDay == 18255
MaxDayOffset == 70
\* most files the archive holds for a query
MaxCount == 3
\* most results the backend puts on one page, whatever page_size asks for
PageCap == 2
\* most submitQuery calls awaiting their response at once: on the main page
\* with its form edits and downloads, and when the user clicks on while
\* earlier queries wait
MaxInflight == 1
MaxWaiting == 2
\* most login or logout handlers suspended at once
MaxCalls == 2
\* the age in days beyond which a backup file is not aged further
MaxAge == 9
\* the pages and page sizes of the queries whose page controls are built
MaxShownPage == 4
MaxPageSize == 3
\* most texts the error banner holds before further failures are cut off
MaxErrors == 1

(***************************************************************************)
(* Program constants                                                       *)
(***************************************************************************)
\* determinePages(..., 10, 2) in buildPageControls
MaxControls == 10
SurroundingControls == 2

(***************************************************************************)
(* determinePages (frontend.js 686-760)                                    *)
(***************************************************************************)

NULL == <<>>

\* queryParams.set("page_size", 1000) in downloadAll
DownloadPageSize == 1000

\* the number a decimal string denotes
Number(s) == CHOOSE n \in (0..(MaxPages + MaxCount + 1)) \cup {DownloadPageSize} :
                 ToString(n) = s

\* String(i): the decimal rendering of a page number
String(i) == ToString(i)

\* the loop  for (let i=startRange; i<=endRange; i++) pageList.push(String(i))
PushRange(startRange, endRange) ==
    [k \in 1..(IF endRange >= startRange THEN endRange - startRange + 1 ELSE 0)
        |-> String(startRange + k - 1)]

Mut_changeOver(maxControls, surroundingControls) ==
    maxControls - 2

\* let changeOver = maxControls - (2+surroundingControls)
changeOver(maxControls, surroundingControls) ==
    maxControls - (2 + surroundingControls)

\* the guard of the ellipsis regimes
NeedsEllipses(totalPages, maxControls) == totalPages > maxControls + 2

Mut_needStartEllipses(currentPage, totalPages, maxControls, surroundingControls) ==
    FALSE

needStartEllipses(currentPage, totalPages, maxControls, surroundingControls) ==
    /\ NeedsEllipses(totalPages, maxControls)
    /\ ~(currentPage <= changeOver(maxControls, surroundingControls))

Mut_needEndEllipses(currentPage, totalPages, maxControls, surroundingControls) ==
    /\ NeedsEllipses(totalPages, maxControls)
    /\ \/ currentPage <= changeOver(maxControls, surroundingControls)
       \/ currentPage + surroundingControls <= totalPages

needEndEllipses(currentPage, totalPages, maxControls, surroundingControls) ==
    /\ NeedsEllipses(totalPages, maxControls)
    /\ \/ currentPage <= changeOver(maxControls, surroundingControls)
       \/ currentPage + surroundingControls < totalPages

Mut_endRange(currentPage, totalPages, maxControls, surroundingControls) ==
    IF ~NeedsEllipses(totalPages, maxControls)
    THEN totalPages
    ELSE IF currentPage <= changeOver(maxControls, surroundingControls)
         THEN maxControls - 2
         ELSE IF currentPage + surroundingControls < totalPages
              THEN currentPage + surroundingControls
              ELSE totalPages - 1

endRange(currentPage, totalPages, maxControls, surroundingControls) ==
    IF ~NeedsEllipses(totalPages, maxControls)
    THEN totalPages
    ELSE IF currentPage <= changeOver(maxControls, surroundingControls)
         THEN maxControls - 2
         ELSE IF currentPage + surroundingControls < totalPages
              THEN currentPage + surroundingControls
              ELSE totalPages

startRange(currentPage, totalPages, maxControls, surroundingControls) ==
    LET end == endRange(currentPage, totalPages, maxControls, surroundingControls)
    IN  IF ~NeedsEllipses(totalPages, maxControls)
        THEN 2
        ELSE IF currentPage <= changeOver(maxControls, surroundingControls)
             THEN 2
             ELSE IF currentPage + surroundingControls < totalPages
                  THEN (end - (maxControls - 4)) + 1
                  ELSE (end - (maxControls - 3)) + 1

determinePages(currentPage, totalPages, maxControls, surroundingControls) ==
    <<"1">>
    \o (IF needStartEllipses(currentPage, totalPages, maxControls, surroundingControls)
        THEN <<"...">> ELSE <<>>)
    \o PushRange(startRange(currentPage, totalPages, maxControls, surroundingControls),
                 endRange(currentPage, totalPages, maxControls, surroundingControls))
    \o (IF needEndEllipses(currentPage, totalPages, maxControls, surroundingControls)
        THEN <<"...", String(totalPages)>> ELSE <<>>)

(***************************************************************************)
(* Dates (frontend.js 264-294).  A JavaScript time value is a number of    *)
(* milliseconds since 1970-01-01T00:00Z; it is kept here as the pair       *)
(* [day, ms] with value day * 86400000 + ms and 0 <= ms < 86400000, since  *)
(* the time values of these years exceed the model checker's integers.     *)
(***************************************************************************)
MsPerDay == 86400000
MsPerHour == 3600000
MsPerMinute == 60000
MsPerSecond == 1000

\* the civil-calendar arithmetic of Date: days since 1970-01-01 of y-m-d
DaysFromCivil(y, m, d) ==
    LET yy  == IF m <= 2 THEN y - 1 ELSE y
        era == yy \div 400
        yoe == yy - era * 400
        mp  == IF m > 2 THEN m - 3 ELSE m + 9
        doy == (153 * mp + 2) \div 5 + d - 1
        doe == yoe * 365 + yoe \div 4 - yoe \div 100 + doy
    IN  era * 146097 + doe - 719468

\* and back: the year, month and day of a day number
CivilOfYearMonthDay(y, m, d) == [y |-> IF m <= 2 THEN y + 1 ELSE y, m |-> m, d |-> d]

CivilOfDayOfYear(y, doy, mp) ==
    CivilOfYearMonthDay(y, IF mp < 10 THEN mp + 3 ELSE mp - 9,
                        doy - (153 * mp + 2) \div 5 + 1)

CivilOfYearOfEra(era, doe, yoe) ==
    CivilOfDayOfYear(yoe + era * 400,
                     doe - (365 * yoe + yoe \div 4 - yoe \div 100),
                     (5 * (doe - (365 * yoe + yoe \div 4 - yoe \div 100)) + 2) \div 153)

CivilOfDayOfEra(era, doe) ==
    CivilOfYearOfEra(era, doe,
        (doe - doe \div 1460 + doe \div 36524 - doe \div 146096) \div 365)

CivilFromDays(n) ==
    CivilOfDayOfEra((n + 719468) \div 146097,
                    (n + 719468) - ((n + 719468) \div 146097) * 146097)

\* the dates a user enters: "YYYY-MM-DD" as [y, m, d]
EnteredDates == {CivilFromDays(FirstDay + k) : k \in 0..MaxDayOffset}

\* t + ms for 0 <= ms < 2 * MsPerDay
TimePlus(t, ms) ==
    LET sum == t.ms + ms
    IN  [day |-> t.day + sum \div MsPerDay, ms |-> sum % MsPerDay]

\* a.getTime() > b.getTime()
TimeGT(a, b) == a.day > b.day \/ (a.day = b.day /\ a.ms > b.ms)

TimeLE(a, b) == ~TimeGT(a, b)

\* new Date(value + " 12:00:00-0800"): noon at UTC-8 of the date, 20:00 UTC
NoonPST(value) ==
    [day |-> DaysFromCivil(value.y, value.m, value.d), ms |-> (12 + 8) * MsPerHour]

\* Date.prototype.toISOString: YYYY-MM-DDTHH:mm:ss.sssZ, in UTC
ISOFields(c, ms) ==
    [year |-> c.y, month |-> c.m, day |-> c.d,
     hour |-> ms \div MsPerHour,
     minute |-> (ms % MsPerHour) \div MsPerMinute,
     second |-> (ms % MsPerMinute) \div MsPerSecond,
     millis |-> ms % MsPerSecond]

toISOString(t) == ISOFields(CivilFromDays(t.day), t.ms)

\* the time value an ISO string denotes (what the backend reads)
FromISOString(s) ==
    [day |-> DaysFromCivil(s.year, s.month, s.day),
     ms |-> s.hour * MsPerHour + s.minute * MsPerMinute
            + s.second * MsPerSecond + s.millis]

\* let endEpochTime = startDate.getTime() + 86399999
Mut_AlmostADay == 86399999 + 1

AlmostADay == 86399999

\* startDate == endDate compares two Date objects, each made by its own
\* new Date(...): == on objects is identity, so it is false whatever they hold
SameDateObject(startDate, endDate) == FALSE

Mut_DatesSwapped(startDate, endDate) == FALSE

\* if (startDate.getTime() > endDate.getTime())
DatesSwapped(startDate, endDate) == TimeGT(startDate, endDate)

\* lines 287-293: the two values, the earlier one first
OrderedValues(startDate, endDate) ==
    IF DatesSwapped(startDate, endDate)
    THEN <<toISOString(endDate), toISOString(startDate)>>
    ELSE <<toISOString(startDate), toISOString(endDate)>>

\* lines 274-280: the end of a two-date range
RangeEnd(startDate, endDate) ==
    IF SameDateObject(startDate, endDate)
    THEN TimePlus(startDate, AlmostADay)
    ELSE endDate

buildObsDateSearchValues(values) ==
    IF Len(values) = 1
    THEN OrderedValues(NoonPST(values[1]), TimePlus(NoonPST(values[1]), AlmostADay))
    ELSE IF Len(values) = 2
    THEN OrderedValues(NoonPST(values[1]), RangeEnd(NoonPST(values[1]), NoonPST(values[2])))
    ELSE values

(***************************************************************************)
(* The search form and buildQueryParams (frontend.js 152-261).             *)
(* config.json is not among the sources: the configuration below is the    *)
(* one the documentation describes.                                        *)
(***************************************************************************)
\* config.searchFields, the four primary search fields
SearchFields == <<"object", "obs_date", "filename", "coord">>




\* config.instrumentOrder / config.instruments: "Kast Blue" and "Kast Red"
\* are grouped under the category "Kast"
InstrumentOrder == <<"KAST", "KAST_BLUE", "KAST_RED", "SHARCS">>

InstrumentIsCategory(key) == key = "KAST"

\* the checkboxes input[id$='_result'], in document order
ResultCheckboxes == <<"filename", "object", "obs_date">>

\* an empty date control
NoDate == [y |-> 0, m |-> 0, d |-> 0]

\* "YYYY-MM-DD" and the text of an ISO string
Pad2(n) == IF n < 10 THEN "0" \o ToString(n) ELSE ToString(n)

Pad3(n) == IF n < 10 THEN "00" \o ToString(n)
           ELSE IF n < 100 THEN "0" \o ToString(n) ELSE ToString(n)

DateText(v) == ToString(v.y) \o "-" \o Pad2(v.m) \o "-" \o Pad2(v.d)

ISOText(r) ==
    ToString(r.year) \o "-" \o Pad2(r.month) \o "-" \o Pad2(r.day) \o "T"
    \o Pad2(r.hour) \o ":" \o Pad2(r.minute) \o ":" \o Pad2(r.second)
    \o "." \o Pad3(r.millis) \o "Z"

\* the form as the page shows it after DOMContentLoaded: the object search
\* is ticked, every instrument is checked (connectControls of instrument_all
\* runs last), the result options are the page's defaults
InitialForm ==
    [query_by        |-> [f \in {"object", "obs_date", "filename", "coord"} |-> f = "object"],
     search_operator |-> [object |-> "eq", obs_date |-> "eq", filename |-> "eq"],
     search_case     |-> [object |-> FALSE],
     search_text     |-> [object |-> <<"M31">>, filename |-> <<"">>,
                          coord |-> <<"", "", "">>],
     search_date     |-> <<NoDate, NoDate>>,
     instrument      |-> [k \in {"KAST", "KAST_BLUE", "KAST_RED", "SHARCS"} |-> TRUE],
     id_count_0      |-> FALSE,
     id_page_size    |-> "",
     id_coord_format |-> "hmsdms",
     id_sort_fields  |-> "obs_date",
     id_sort_dir     |-> "+",
     result          |-> [r \in {"filename", "object", "obs_date"} |-> r # "object"]]

\* ---- a Map: entries in insertion order.  An entry is a search term
\* ({operator, values}), an Array (values) or a single value (values[1]) ----
Term(key, op, values) == [key |-> key, kind |-> "term", operator |-> op, values |-> values]
List(key, values)     == [key |-> key, kind |-> "list", operator |-> "", values |-> values]
Scalar(key, value)    == [key |-> key, kind |-> "scalar", operator |-> "", values |-> <<value>>]

MapHas(map, key) == \E i \in DOMAIN map : map[i].key = key

MapGet(map, key) == map[CHOOSE i \in DOMAIN map : map[i].key = key]

\* Map.prototype.set: an existing key keeps its place, a new one goes last
MapSet(map, entry) ==
    IF MapHas(map, entry.key)
    THEN [i \in DOMAIN map |-> IF map[i].key = entry.key THEN entry ELSE map[i]]
    ELSE Append(map, entry)

\* the controls whose value is not empty, in order
\* (valueElem != null && valueElem.value != "")
RECURSIVE NonEmptyValues(_, _)
NonEmptyValues(controls, empty) ==
    IF Len(controls) = 0 THEN <<>>
    ELSE (IF Head(controls) # empty THEN <<Head(controls)>> ELSE <<>>)
         \o NonEmptyValues(Tail(controls), empty)

\* the page size a query asks for when id_page_size is empty; it stands for
\* config.defaults["page_size"], kept as small as the archive of the model
DefaultPageSize == 2

\* lines 181-190: the values and the operator of an observation-date search
ObsDateTerm(field, entered, built) ==
    Term(field,
         IF Len(built) = 2 THEN "in" ELSE "eq",
         IF Len(entered) \in {1, 2}
         THEN [i \in DOMAIN built |-> ISOText(built[i])]
         ELSE [i \in DOMAIN built |-> DateText(built[i])])

\* lines 160-170: the operator of a search field
SearchOperator(f, field) ==
    (IF field \in {"object", "obs_date", "filename"} THEN f.search_operator[field] ELSE "in")
    \o (IF field \in {"object"} /\ f.search_case[field] # TRUE THEN "i" ELSE "")

\* lines 156-193: the entry of one primary search field
SearchTerm(f, field) ==
    IF field = "obs_date"
    THEN ObsDateTerm(field, NonEmptyValues(f.search_date, NoDate),
                     buildObsDateSearchValues(NonEmptyValues(f.search_date, NoDate)))
    ELSE Term(field, SearchOperator(f, field), NonEmptyValues(f.search_text[field], ""))

Mut_SearchTerms(f, i) ==
    [k \in 1..(Len(SearchFields) - i + 1) |-> SearchTerm(f, SearchFields[i + k - 1])]

RECURSIVE SearchTerms(_, _)
SearchTerms(f, i) ==
    IF i > Len(SearchFields) THEN <<>>
    ELSE (IF f.query_by[SearchFields[i]] THEN <<SearchTerm(f, SearchFields[i])>> ELSE <<>>)
         \o SearchTerms(f, i + 1)

Mut_CheckedInstruments(f, i) ==
    IF f.instrument["KAST"] THEN <<"KAST", "SHARCS">> ELSE <<"SHARCS">>

\* lines 197-210: the instrument filter
RECURSIVE CheckedInstruments(_, _)
CheckedInstruments(f, i) ==
    IF i > Len(InstrumentOrder) THEN <<>>
    ELSE (IF f.instrument[InstrumentOrder[i]]
             /\ InstrumentIsCategory(InstrumentOrder[i]) = FALSE
          THEN <<InstrumentOrder[i]>> ELSE <<>>)
         \o CheckedInstruments(f, i + 1)

InstrumentValues(f) == <<"instrument">> \o CheckedInstruments(f, 1)

\* lines 238-255: the result fields
RECURSIVE SelectedResults(_, _)
SelectedResults(f, i) ==
    IF i > Len(ResultCheckboxes) THEN <<>>
    ELSE (IF f.result[ResultCheckboxes[i]] THEN <<ResultCheckboxes[i]>> ELSE <<>>)
         \o (IF ResultCheckboxes[i] = "filename" THEN <<"download_link">> ELSE <<>>)
         \o SelectedResults(f, i + 1)

ResultOptions(f) ==
    LET page_size == IF f.id_page_size = "" THEN ToString(DefaultPageSize) ELSE f.id_page_size
        sortValue == IF f.id_sort_dir = "-" THEN "-" \o f.id_sort_fields ELSE f.id_sort_fields
        results   == SelectedResults(f, 1)
    IN  <<Scalar("page_size", page_size),
          Scalar("coord_format", f.id_coord_format),
          Scalar("sort", sortValue),
          List("results", IF Len(results) = 0
                          THEN <<"filename", "download_link", "obs_date">>
                          ELSE results)>>

buildQueryParams(f, page) ==
    SearchTerms(f, 1)
    \o (IF Len(InstrumentValues(f)) > 0 THEN <<List("filters", InstrumentValues(f))>> ELSE <<>>)
    \o (IF f.id_count_0 THEN <<Scalar("count", "")>> ELSE ResultOptions(f))
    \o <<Scalar("page", page)>>

\* Array.prototype.join(",")
RECURSIVE JoinComma(_)
JoinComma(values) ==
    IF Len(values) = 0 THEN ""
    ELSE IF Len(values) = 1 THEN values[1]
    ELSE values[1] \o "," \o JoinComma(Tail(values))

\* queryParamsToString (frontend.js 297-314): the name=value pairs of the
\* query string behind config.backendURLBase + "data/?"
queryParamsToString(queryParams) ==
    [i \in DOMAIN queryParams |->
        <<queryParams[i].key,
          IF queryParams[i].kind = "list" THEN JoinComma(queryParams[i].values)
          ELSE IF queryParams[i].kind = "term"
               THEN queryParams[i].operator \o "," \o JoinComma(queryParams[i].values)
               ELSE queryParams[i].values[1]>>]

(***************************************************************************)
(* The archive backend, as the API reference describes it (api.rst): a     *)
(* query URL is answered with one page {count, next, previous, results}.   *)
(* What the archive holds for a query may differ from request to request.  *)
(***************************************************************************)
UrlParam(url, key) == (url[CHOOSE i \in DOMAIN url : url[i][1] = key])[2]

UrlHas(url, key) == \E i \in DOMAIN url : url[i][1] = key

\* the link to another page of the same query
WithPage(url, page) ==
    [i \in DOMAIN url |-> IF url[i][1] = "page" THEN <<"page", ToString(page)>> ELSE url[i]]

Min(a, b) == IF a <= b THEN a ELSE b

FileName(k) == "f" \o ToString(k) \o ".fits"

\* the page of url when count files match
ServerPage(url, count) ==
    LET page  == Number(UrlParam(url, "page"))
        size  == Min(Number(UrlParam(url, "page_size")), PageCap)
        first == (page - 1) * size + 1
        n     == IF count < first THEN 0 ELSE Min(size, count - first + 1)
    IN  [hasError |-> FALSE, error |-> "",
         count    |-> count,
         next     |-> IF page * size < count THEN WithPage(url, page + 1) ELSE NULL,
         previous |-> IF page > 1 THEN WithPage(url, page - 1) ELSE NULL,
         results  |-> [k \in 1..n |-> [id |-> first + k - 1,
                                       filename |-> FileName(first + k - 1)]]]

\* a count-only query is answered with the count alone
ServerCount(count) ==
    [hasError |-> FALSE, error |-> "", count |-> count,
     next |-> NULL, previous |-> NULL, results |-> NULL]

\* what a fetch of url can come back with
Responses(url) ==
    {[kind |-> "ok", status |-> 200,
      json |-> IF UrlHas(url, "count") THEN ServerCount(c) ELSE ServerPage(url, c)]
        : c \in 0..MaxCount}
    \cup {[kind |-> "ok", status |-> 200,
           json |-> [hasError |-> TRUE, error |-> "Invalid query", count |-> 0,
                     next |-> NULL, previous |-> NULL, results |-> NULL]]}
    \cup {[kind |-> "status", status |-> 400,
           json |-> [hasError |-> TRUE, error |-> "Invalid query", count |-> 0,
                     next |-> NULL, previous |-> NULL, results |-> NULL]]}
    \cup {[kind |-> "status", status |-> 500, json |-> ServerCount(0)]}
    \cup {[kind |-> "throw", status |-> 0, json |-> ServerCount(0)]}

Failed(response) == response.kind # "ok" \/ response.json.hasError

Mut_runQuery(response) ==
    IF response.kind = "throw"
    THEN [hasError |-> TRUE,
          error |-> "Failed to contact archive server: TypeError: Failed to fetch",
          count |-> 0, next |-> NULL, previous |-> NULL, results |-> NULL]
    ELSE response.json

\* LickArchiveClient.runQuery (login_controls.js 211-228)
runQuery(response) ==
    LET failedToRun == [hasError |-> TRUE, error |-> "Failed to run query.", count |-> 0,
                        next |-> NULL, previous |-> NULL, results |-> NULL]
    IN  IF response.kind = "throw"
        THEN [failedToRun EXCEPT
                 !.error = "Failed to contact archive server: TypeError: Failed to fetch"]
        ELSE IF response.kind = "status"
        THEN [failedToRun EXCEPT
                 !.error = "Archive server returned error code " \o ToString(response.status)]
        ELSE response.json

(***************************************************************************)
(* Showing results (frontend.js 340-417, 623-684)                          *)
(***************************************************************************)

\* buildPageControls: prev and next hold the page their button submits, or
\* "" when the button is disabled; pages is the list of determinePages
buildPageControls(queryParams, jsonResults) ==
    LET page_size      == Number(MapGet(queryParams, "page_size").values[1])
        totalPages     == (jsonResults.count + page_size - 1) \div page_size
        currentPage    == Number(MapGet(queryParams, "page").values[1])
        prevIsNull     == currentPage - 1 < 1 \/ jsonResults.previous = NULL
        \* prevPageValue > totalPages, with null > totalPages false
        nextIsNull     == (~prevIsNull /\ currentPage - 1 > totalPages)
                          \/ jsonResults.next = NULL
    IN  [prev    |-> IF prevIsNull THEN "" ELSE ToString(currentPage - 1),
         pages   |-> determinePages(currentPage, totalPages, MaxControls, SurroundingControls),
         current |-> currentPage,
         next    |-> IF nextIsNull THEN "" ELSE ToString(currentPage + 1)]

\* the values of the page buttons that can be clicked
ClickablePages ==
    {pageControls.pages[i] : i \in {j \in DOMAIN pageControls.pages :
                                       /\ pageControls.pages[j] # "..."
                                       /\ Number(pageControls.pages[j]) # pageControls.current}}
    \cup ({pageControls.prev, pageControls.next} \ {""})

(***************************************************************************)
(* Spec: the main page.  The user edits the form, submits queries, pages   *)
(* through results and presses Download All; the backend answers.          *)
(***************************************************************************)

\* a checkbox as buildSelectCheckbox creates it; resultHdrCheckbox is null
\* until the first table is built, when no Select All can be clicked
NoCheckbox == [checked |-> FALSE, indeterminate |-> FALSE]



\* the HTTP status and the error payload of a response (status 0 and no
\* payload when the fetch threw), with the text the handler put in the banner
Answer(response, results) ==
    [status |-> response.status,
     payloadError |-> IF response.kind # "throw" /\ response.json.hasError
                      THEN response.json.error ELSE "",
     shown |-> IF results.hasError THEN results.error ELSE "",
     latest |-> answered.latest]

DlIdle == [pc |-> "idle", queryParams |-> <<>>, displayed |-> <<>>,
           queryURL |-> NULL, filenames |-> <<>>, fetched |-> <<>>]

UiInit ==
    /\ form = InitialForm
    /\ inflight = {}
    /\ tableHidden = TRUE
    /\ buttonsHidden = TRUE
    /\ shownQuery = <<>>
    /\ latestQueryResults = <<>>
    /\ resultsCount = ""
    /\ pageControls = [prev |-> "", pages |-> <<>>, current |-> 0, next |-> ""]
    /\ errorMessages = <<>>
    /\ dl = DlIdle
    /\ tableRows = <<>>
    /\ resultCheckboxes = <<>>
    /\ resultHdrCheckbox = NoCheckbox
    /\ numRowsSelected = 0
    /\ downloadSelectedDisabled = FALSE
    /\ sel = [pc |-> "idle", filenames |-> <<>>, rows |-> <<>>, checks |-> <<>>]
    /\ answered = [status |-> 0, payloadError |-> "", shown |-> "", latest |-> <<>>]

Init == UiInit /\ PagesIdle /\ DateIdle /\ BuildIdle /\ LoginIdle /\ BackupIdle

\* the user types another object name into search_value_object_1
EditObject ==
    /\ \E v \in {"M31", "M42"} \ {form.search_text.object[1]} :
          form' = [form EXCEPT !.search_text.object = <<v>>]
    /\ UNCHANGED <<inflight, tableHidden, buttonsHidden, shownQuery, latestQueryResults,
                   resultsCount, pageControls, errorMessages, dl>>
    /\ UNCHANGED <<bkVars, loginVars, buildVars, pgVars, dateVars, rowVars, answered>>

\* const results = await archiveClient.runQuery(queryURL): the call is
\* suspended with its queryParams until the response arrives; displayed notes
\* the query whose results the table showed when the button was clicked
AwaitRunQuery(queryParams) ==
    inflight' = inflight \cup {[queryParams |-> queryParams,
                                queryURL |-> queryParamsToString(queryParams),
                                displayed |-> shownQuery]}

\* submitQuery up to its await: the query of the form as it is now, for the
\* page that the clicked button holds
submitQuery(page) ==
    /\ AwaitRunQuery(buildQueryParams(form, page))
    /\ answered' = [answered EXCEPT !.latest = buildQueryParams(form, page)]
    /\ UNCHANGED <<form, tableHidden, buttonsHidden, shownQuery, latestQueryResults,
                   resultsCount, pageControls, errorMessages, dl>>
    /\ UNCHANGED <<bkVars, loginVars, buildVars, pgVars, dateVars, rowVars>>

\* the Submit Query button
ClickSubmitQuery ==
    /\ Cardinality(inflight) < MaxInflight
    /\ submitQuery("1")

\* a page number, previous or next button of the shown page controls
ClickPageControl ==
    /\ ~tableHidden
    /\ Cardinality(inflight) < MaxInflight
    /\ \E page \in ClickablePages : submitQuery(page)

\* showResultsCountOnly
showResultsCountOnly(count) ==
    /\ buttonsHidden' = TRUE
    /\ tableHidden' = TRUE
    /\ resultsCount' = "Number of results: " \o ToString(count)
    /\ UNCHANGED <<pageControls, shownQuery>>
    /\ UNCHANGED <<tableRows, resultCheckboxes, resultHdrCheckbox,
                   downloadSelectedDisabled>>

\* buildHeaderRow: a new, unchecked Select All checkbox
buildHeaderRow == resultHdrCheckbox' = NoCheckbox

\* buildResultRows: one row and one unchecked checkbox per result, row i
\* showing results[i]
buildResultRows(results) ==
    /\ resultCheckboxes' = [i \in DOMAIN results |-> FALSE]
    /\ tableRows' = [i \in DOMAIN results |-> results[i].filename]

\* showResults
showResults(queryParams, resultJson) ==
    /\ buildHeaderRow
    /\ buildResultRows(resultJson.results)
    /\ downloadSelectedDisabled' = TRUE
    /\ tableHidden' = FALSE
    /\ buttonsHidden' = FALSE
    /\ resultsCount' = "Showing " \o ToString(Len(resultJson.results)) \o " of "
                       \o ToString(resultJson.count) \o " results."
    /\ pageControls' = buildPageControls(queryParams, resultJson)
    /\ shownQuery' = queryParams

\* processResults
processResults(queryParams, jsonResults) ==
    IF jsonResults.hasError
    THEN /\ showResultsCountOnly(0)
         /\ errorMessages' = Append(errorMessages, jsonResults.error)
         /\ UNCHANGED latestQueryResults
    ELSE /\ errorMessages' = <<>>
         /\ IF jsonResults.count = 0 \/ MapHas(queryParams, "count")
            THEN /\ showResultsCountOnly(jsonResults.count)
                 /\ UNCHANGED latestQueryResults
            ELSE /\ latestQueryResults' = jsonResults.results
                 /\ showResults(queryParams, jsonResults)

\* the response to a submitted query arrives: submitQuery resumes
QueryResponse ==
    /\ \E req \in inflight :
          \E response \in Responses(req.queryURL) :
              /\ Failed(response) => Len(errorMessages) < MaxErrors
              /\ inflight' = inflight \ {req}
              /\ processResults(req.queryParams, runQuery(response))
              /\ answered' = Answer(response, runQuery(response))
    /\ UNCHANGED <<form, dl, numRowsSelected, sel>>
    /\ UNCHANGED <<bkVars, loginVars, buildVars, pgVars, dateVars>>

\* lines 783-789: the first page of the download query is requested
StartDownload(queryParams) ==
    dl' = [pc |-> "fetching", queryParams |-> queryParams,
           displayed |-> shownQuery,
           queryURL |-> queryParamsToString(queryParams),
           filenames |-> <<>>, fetched |-> <<>>]

\* lines 781-784: the query of the form, one page of 1000 filenames
DownloadQuery(f) ==
    MapSet(MapSet(buildQueryParams(f, "1"),
                  Scalar("page_size", ToString(DownloadPageSize))),
           List("results", <<"filename">>))

\* downloadAll up to its first await (frontend.js 779-789)
ClickDownloadAll ==
    /\ ~buttonsHidden
    /\ dl.pc # "fetching"
    /\ StartDownload(DownloadQuery(form))
    /\ UNCHANGED <<form, inflight, tableHidden, buttonsHidden, shownQuery,
                   latestQueryResults, resultsCount, pageControls, errorMessages>>
    /\ UNCHANGED <<bkVars, loginVars, buildVars, pgVars, dateVars, rowVars, answered>>

Mut_AccumulateFilenames(filenamesToDownload, results) ==
    [i \in DOMAIN results |-> results[i].filename]

\* for (const result of results["results"]) filenamesToDownload.push(...)
AccumulateFilenames(filenamesToDownload, results) ==
    filenamesToDownload \o [i \in DOMAIN results |-> results[i].filename]

Mut_LoopAgain(queryURL) == FALSE

\* while (queryURL != null)
LoopAgain(queryURL) == queryURL # NULL

\* a page of the download query arrives: downloadAll resumes.  At pc
\* "submitted" it has called submitDownload(dl.filenames)
DownloadResponse ==
    /\ dl.pc = "fetching"
    /\ \E response \in Responses(dl.queryURL) :
          LET results == runQuery(response)
          IN  /\ Failed(response) => Len(errorMessages) < MaxErrors
              /\ answered' = Answer(response, results)
              /\ IF results.hasError
                 THEN /\ errorMessages' = Append(errorMessages, results.error)
                      /\ dl' = [dl EXCEPT !.pc = "failed"]
                 ELSE /\ dl' = [dl EXCEPT
                            !.queryURL = results.next,
                            !.filenames = AccumulateFilenames(@, results.results),
                            !.fetched = Append(@,
                                [url |-> dl.queryURL, next |-> results.next,
                                 names |-> [i \in DOMAIN results.results
                                               |-> results.results[i].filename]]),
                            !.pc = IF LoopAgain(results.next) THEN "fetching"
                                   ELSE "submitted"]
                      /\ UNCHANGED errorMessages
    /\ UNCHANGED <<form, inflight, tableHidden, buttonsHidden, shownQuery,
                   latestQueryResults, resultsCount, pageControls>>
    /\ UNCHANGED <<bkVars, loginVars, buildVars, pgVars, dateVars, rowVars>>

(***************************************************************************)
(* Selecting rows (frontend.js 563-620) and Download Selected (762-774)    *)
(***************************************************************************)
\* rowSelected: event.target is the row checkbox in its new state
rowSelected(targetChecked) ==
    LET counted == IF targetChecked THEN numRowsSelected + 1
                   ELSE numRowsSelected - 1
        rows == Len(resultCheckboxes')
        n == IF counted < 0 THEN 0 ELSE IF counted > rows THEN rows ELSE counted
    IN  /\ numRowsSelected' = n
        /\ downloadSelectedDisabled' = (n = 0)
        /\ resultHdrCheckbox' =
              IF n = 0 THEN [checked |-> FALSE, indeterminate |-> FALSE]
              ELSE IF n = Len(resultCheckboxes')
                   THEN [checked |-> TRUE, indeterminate |-> FALSE]
                   ELSE [checked |-> FALSE, indeterminate |-> TRUE]

\* the user clicks the checkbox of row i: the browser flips it, then
\* rowSelected runs
ClickRowCheckbox ==
    /\ ~tableHidden
    /\ \E i \in DOMAIN resultCheckboxes :
          /\ resultCheckboxes' = [resultCheckboxes EXCEPT ![i] = ~@]
          /\ rowSelected(resultCheckboxes'[i])
    /\ UNCHANGED <<form, inflight, tableHidden, buttonsHidden, shownQuery,
                   latestQueryResults, resultsCount, pageControls, errorMessages, dl,
                   tableRows, sel, answered>>
    /\ UNCHANGED <<bkVars, loginVars, buildVars, pgVars, dateVars>>

\* selectResults: event.target is the Select All checkbox in its new state
selectResults(target) ==
    LET value == IF target.indeterminate THEN FALSE ELSE target.checked
    IN  /\ numRowsSelected' = IF value THEN Len(resultCheckboxes) ELSE 0
        /\ resultCheckboxes' = [i \in DOMAIN resultCheckboxes |-> value]
        /\ downloadSelectedDisabled' = (numRowsSelected' = 0)

\* the user clicks Select All: the browser flips checked and clears
\* indeterminate before the click handlers run
ClickSelectAll ==
    /\ ~tableHidden
    /\ resultHdrCheckbox' = [checked |-> ~resultHdrCheckbox.checked,
                             indeterminate |-> FALSE]
    /\ selectResults(resultHdrCheckbox')
    /\ UNCHANGED <<form, inflight, tableHidden, buttonsHidden, shownQuery,
                   latestQueryResults, resultsCount, pageControls, errorMessages, dl,
                   tableRows, sel, answered>>
    /\ UNCHANGED <<bkVars, loginVars, buildVars, pgVars, dateVars>>

\* checkbox.id is search_results_select_<i> with i counted from 0, and idx is
\* its last part: the position in latestQueryResults of the k-th checkbox
CheckboxIndex(k) == k

Mut_SelectedFilenames(checkboxes, results, k) ==
    IF k > Len(checkboxes) THEN <<>>
    ELSE <<results[CheckboxIndex(k)].filename>>

\* lines 764-771: the filenames of the checked checkboxes, in their order
RECURSIVE SelectedFilenames(_, _, _)
SelectedFilenames(checkboxes, results, k) ==
    IF k > Len(checkboxes) THEN <<>>
    ELSE (IF checkboxes[k] THEN <<results[CheckboxIndex(k)].filename>> ELSE <<>>)
         \o SelectedFilenames(checkboxes, results, k + 1)

\* submitDownload: an empty list is not submitted
submitDownload(filenamesToDownload) ==
    IF Len(filenamesToDownload) = 0 THEN "empty" ELSE "submitted"

\* downloadSelected; sel keeps what was submitted next to the rows and the
\* checkboxes the table showed at the click
ClickDownloadSelected ==
    /\ ~buttonsHidden
    /\ ~downloadSelectedDisabled
    /\ sel' = [pc |-> submitDownload(SelectedFilenames(resultCheckboxes,
                                                       latestQueryResults, 1)),
               filenames |-> SelectedFilenames(resultCheckboxes, latestQueryResults, 1),
               rows |-> tableRows, checks |-> resultCheckboxes]
    /\ UNCHANGED <<form, inflight, tableHidden, buttonsHidden, shownQuery,
                   latestQueryResults, resultsCount, pageControls, errorMessages, dl,
                   tableRows, resultCheckboxes, resultHdrCheckbox, numRowsSelected,
                   downloadSelectedDisabled, answered>>
    /\ UNCHANGED <<bkVars, loginVars, buildVars, pgVars, dateVars>>

Next ==
    \/ EditObject
    \/ ClickSubmitQuery
    \/ ClickPageControl
    \/ QueryResponse
    \/ ClickDownloadAll
    \/ DownloadResponse

Spec == Init /\ [][Next]_vars

(***************************************************************************)
(* SpecSelect: the main page with the search form left as it is: queries,  *)
(* page changes, row selection and Download Selected                       *)
(***************************************************************************)
\* the user clicks Submit Query or a page button again while earlier
\* queries are still waiting for their answer
ClickWhileWaiting ==
    /\ inflight # {}
    /\ Cardinality(inflight) < MaxWaiting
    /\ \E page \in {"1"} \cup (IF tableHidden THEN {} ELSE ClickablePages) :
          submitQuery(page)

NextSelect ==
    \/ ClickSubmitQuery
    \/ ClickPageControl
    \/ ClickWhileWaiting
    \/ QueryResponse
    \/ ClickRowCheckbox
    \/ ClickSelectAll
    \/ ClickDownloadSelected

SpecSelect == Init /\ [][NextSelect]_vars

\* the main page at rest, for the specifications of the pure functions
UiIdle == UiInit

(***************************************************************************)
(* SpecForm: the user ticks and unticks the controls of the search form    *)
(* and the query of the form is built (frontend.js 49-129, 141-143)        *)
(***************************************************************************)
\* config.instruments[key].children and .parent
InstrumentChildren(key) == IF key = "KAST" THEN <<"KAST_BLUE", "KAST_RED">> ELSE <<>>

InstrumentParent(key) == IF key \in {"KAST_BLUE", "KAST_RED"} THEN "KAST" ELSE ""

\* the other controls of the main page, which no form edit touches
FormFrame ==
    /\ UNCHANGED <<inflight, tableHidden, buttonsHidden, shownQuery, latestQueryResults,
                   resultsCount, pageControls, errorMessages, dl, rowVars, answered>>
    /\ UNCHANGED <<pgVars, dateVars, loginVars, bkVars>>

\* a click on query_by_<field>: the browser flips the checkbox (the connected
\* action only enables or disables the field's controls)
ClickQueryBy ==
    /\ \E i \in DOMAIN SearchFields :
          form' = [form EXCEPT !.query_by[SearchFields[i]] = ~@]
    /\ UNCHANGED builtQuery
    /\ FormFrame

\* selectInstrumentCategory: every child gets the state of the category
selectInstrumentCategory(instruments, target) ==
    [k \in DOMAIN instruments |->
        IF \E c \in DOMAIN InstrumentChildren(target) : InstrumentChildren(target)[c] = k
        THEN instruments[target] ELSE instruments[k]]

Mut_selectInstrumentChild(instruments, target) ==
    [instruments EXCEPT ![InstrumentParent(target)] = instruments[target]]

\* selectInstrumentChild: the parent is checked when all its children are
selectInstrumentChild(instruments, target) ==
    LET siblings == InstrumentChildren(InstrumentParent(target))
        checkedSiblings == Cardinality({c \in DOMAIN siblings : instruments[siblings[c]]})
    IN  [instruments EXCEPT ![InstrumentParent(target)] = (checkedSiblings = Len(siblings))]

\* a click on an instrument checkbox: the browser flips it, then the
\* listener setupInstruments attached to it runs
ClickInstrument ==
    /\ \E i \in DOMAIN InstrumentOrder :
          LET key == InstrumentOrder[i]
              flipped == [form.instrument EXCEPT ![key] = ~@]
          IN  form' = [form EXCEPT !.instrument =
                          IF InstrumentIsCategory(key)
                          THEN selectInstrumentCategory(flipped, key)
                          ELSE IF InstrumentParent(key) # ""
                          THEN selectInstrumentChild(flipped, key)
                          ELSE flipped]
    /\ UNCHANGED builtQuery
    /\ FormFrame

\* instrument_all and instrument_none: every instrument checkbox is set
ClickInstrumentAllNone ==
    /\ \E value \in BOOLEAN :
          /\ form.instrument # [k \in DOMAIN form.instrument |-> value]
          /\ form' = [form EXCEPT !.instrument = [k \in DOMAIN @ |-> value]]
    /\ UNCHANGED builtQuery
    /\ FormFrame

\* the radio buttons id_count_0 (count only) and id_count_1 (results)
ClickCountRadio ==
    /\ form' = [form EXCEPT !.id_count_0 = ~@]
    /\ UNCHANGED builtQuery
    /\ FormFrame

\* submitQuery up to its await, on the Submit Query button: queryParams and
\* the queryURL that is handed to fetch
BuildQueryOfForm ==
    /\ builtQuery' = [form |-> form,
                      queryParams |-> buildQueryParams(form, "1"),
                      queryURL |-> queryParamsToString(buildQueryParams(form, "1"))]
    /\ UNCHANGED form
    /\ FormFrame

NextForm ==
    \/ ClickQueryBy
    \/ ClickInstrument
    \/ ClickInstrumentAllNone
    \/ ClickCountRadio
    \/ BuildQueryOfForm

SpecForm == Init /\ [][NextForm]_vars

(***************************************************************************)
(* SpecResultFields: the Result Format section of the form                 *)
(***************************************************************************)
\* a click on one of the <field>_result checkboxes, which have no listener
ClickResultField ==
    /\ \E i \in DOMAIN ResultCheckboxes :
          form' = [form EXCEPT !.result[ResultCheckboxes[i]] = ~@]
    /\ UNCHANGED builtQuery
    /\ FormFrame

NextResultFields ==
    \/ ClickResultField
    \/ ClickCountRadio
    \/ BuildQueryOfForm

SpecResultFields == Init /\ [][NextResultFields]_vars

(***************************************************************************)
(* SpecObsDateForm: the observation-date controls of the form              *)
(***************************************************************************)
\* the dates the user picks in the date controls
FormDates == {[y |-> 2019, m |-> 12, d |-> 25], [y |-> 2019, m |-> 12, d |-> 31]}

\* the change listener of search_operator_obs_date (frontend.js 66) keeps
\* search_value_obs_date_2.hidden equal to this
SecondDateHidden(f) == f.search_operator.obs_date # "in"

\* the pull-down list search_operator_obs_date: an individual date or a range
ChangeObsDateOperator ==
    /\ form' = [form EXCEPT !.search_operator.obs_date = IF @ = "in" THEN "eq" ELSE "in"]
    /\ UNCHANGED builtQuery
    /\ FormFrame

\* the user picks or clears a date in a date control that is shown
EnterObsDate ==
    /\ \E i \in 1..2 : \E date \in (FormDates \cup {NoDate}) \ {form.search_date[i]} :
          /\ i = 2 => ~SecondDateHidden(form)
          /\ form' = [form EXCEPT !.search_date[i] = date]
    /\ UNCHANGED builtQuery
    /\ FormFrame

NextObsDateForm ==
    \/ ClickQueryBy
    \/ ChangeObsDateOperator
    \/ EnterObsDate
    \/ BuildQueryOfForm

SpecObsDateForm == Init /\ [][NextObsDateForm]_vars

(***************************************************************************)
(* SpecLogin: the login status of the main page, logout, and the login     *)
(* page (login_controls.js, login.js 1-40).  A handler is suspended at     *)
(* each await of a backend call; what runs between two awaits is one step. *)
(***************************************************************************)
\* the tokens the backend hands out
Tokens == {"ta", "tb"}


\* the fields of a new LickArchiveClient ("" stands for null)
NewClient == [loginUser |-> "", apiCSRFToken |-> "", errorMessage |-> ""]

NoJson == [logged_in |-> FALSE, user |-> "", csrfmiddlewaretoken |-> ""]

\* what the backend, or the network, answers to a request of the client
FailedResponses(statuses) ==
    {[kind |-> "status", status |-> st, json |-> NoJson] : st \in statuses}
    \cup {[kind |-> "throw", status |-> 0, json |-> NoJson]}

\* GET api/login: the login state of the session and a token
GetLoginResponses ==
    {[kind |-> "ok", status |-> 200,
      json |-> [logged_in |-> session # "", user |-> session, csrfmiddlewaretoken |-> t]]
        : t \in Tokens}
    \cup FailedResponses({500})

\* POST api/login: the user is logged in, or the password is rejected (403)
PostLoginResponses ==
    {[kind |-> "ok", status |-> 200,
      json |-> [logged_in |-> TRUE, user |-> "user@example.org", csrfmiddlewaretoken |-> t]]
        : t \in Tokens}
    \cup FailedResponses({403, 500})


\* error.message of the TypeError a failed fetch throws
FetchError == "Failed to fetch"

\* getLoginStatus (login_controls.js 91-118)
getLoginStatus(response) ==
    IF response.kind = "throw"
    THEN [loginUser |-> "", apiCSRFToken |-> "", errorMessage |-> FetchError]
    ELSE IF response.kind = "status"
    THEN [loginUser |-> "", apiCSRFToken |-> "",
          errorMessage |-> "Received status " \o ToString(response.status)
                           \o " from archive when checking login status."]
    ELSE [loginUser |-> IF response.json.logged_in THEN response.json.user ELSE "",
          apiCSRFToken |-> response.json.csrfmiddlewaretoken,
          errorMessage |-> ""]

\* login after its POST (lines 136-157)
loginPosted(c, response) ==
    IF response.kind = "throw"
    THEN [c EXCEPT !.errorMessage = FetchError, !.apiCSRFToken = ""]
    ELSE IF response.kind = "status"
    THEN [loginUser |-> "", apiCSRFToken |-> "",
          errorMessage |-> IF response.status = 403 THEN "Login failed"
                           ELSE "Login failed, status code " \o ToString(response.status)]
    ELSE [loginUser |-> response.json.user,
          apiCSRFToken |-> response.json.csrfmiddlewaretoken,
          errorMessage |-> ""]

\* logout after its POST (lines 174-188)
logoutPosted(c, response) ==
    IF response.kind = "throw"
    THEN [c EXCEPT !.errorMessage = FetchError, !.apiCSRFToken = ""]
    ELSE IF response.kind = "status"
    THEN [c EXCEPT !.errorMessage = "Failed to logout, status code "
                                    \o ToString(response.status),
                   !.apiCSRFToken = ""]
    ELSE NewClient

Mut_NoTokenHeld(c) == FALSE

\* this.apiCSRFToken == null
NoTokenHeld(c) == c.apiCSRFToken = ""

\* the message a failed call leaves in errorMessage; none for an answer
\* with an OK status
FailureOf(response, c) == IF response.kind = "ok" THEN {} ELSE {c.errorMessage}

\* the controls of the pages that no login handler touches
LoginFrame ==
    /\ UNCHANGED <<form, inflight, tableHidden, buttonsHidden, shownQuery,
                   latestQueryResults, resultsCount, pageControls, dl, rowVars, answered>>
    /\ UNCHANGED <<pgVars, dateVars, buildVars, bkVars>>


\* a page is loaded: a new client, and setLoginStatus runs on
\* DOMContentLoaded up to await fetch(api/login)
OpenPage(name) ==
    /\ location' = name
    /\ client' = NewClient
    /\ loginoutButton' = "login"
    /\ loginText' = ""
    /\ errorMessages' = <<>>
    /\ calls' = {[handler |-> "setLoginStatus", await |-> "status_get", failures |-> {}]}
    /\ finished' = [handler |-> "", failures |-> {}, banner |-> <<>>]
    /\ lastPost' = [url |-> "", token |-> "", returned |-> FALSE]
    /\ tokenGet' = [failed |-> FALSE, posted |-> FALSE, message |-> "", reported |-> ""]

\* the fetch of a POST with the token the client holds; returned tells
\* whether the backend has handed out that token before
Post(url, c, known) == [url |-> url, token |-> c.apiCSRFToken,
                        returned |-> c.apiCSRFToken \in known]

\* the tokens known once response has arrived
Known(response) ==
    issued \cup (IF response.kind = "ok" /\ response.json.csrfmiddlewaretoken # ""
                 THEN {response.json.csrfmiddlewaretoken} ELSE {})

\* the call with its handler suspended at another await
Suspended(call, await, failures) ==
    (calls \ {call}) \cup {[handler |-> call.handler, await |-> await,
                            failures |-> call.failures \cup failures]}

InitLogin ==
    /\ UiInit /\ PagesIdle /\ DateIdle /\ BuildIdle /\ BackupIdle
    /\ location = "index"
    /\ client = NewClient
    /\ loginoutButton = "login"
    /\ loginText = ""
    /\ calls = {[handler |-> "setLoginStatus", await |-> "status_get", failures |-> {}]}
    /\ session \in {"", "user@example.org"}
    /\ issued = {}
    /\ lastPost = [url |-> "", token |-> "", returned |-> FALSE]
    /\ tokenGet = [failed |-> FALSE, posted |-> FALSE, message |-> "", reported |-> ""]
    /\ finished = [handler |-> "", failures |-> {}, banner |-> <<>>]

\* setLoginStatus after await getLoginStatus (lines 23-47).  archiveClient on
\* line 28 is not a name of the module login_controls.js: bound tells whether
\* the bundle resolves it to the page's client, or the read throws a
\* ReferenceError and the handler ends there
showLoginStatus(c, bound) ==
    IF c.errorMessage # ""
    THEN /\ loginoutButton' = "login"
         /\ errorMessages' = IF bound THEN Append(errorMessages, c.errorMessage)
                             ELSE errorMessages
    ELSE /\ loginoutButton' = IF c.loginUser # "" THEN "logout" ELSE "login"
         /\ errorMessages' = <<>>

\* the answer to the GET of setLoginStatus arrives: the handler that called
\* it runs to its end
StatusResponse ==
    /\ \E call \in calls : \E response \in GetLoginResponses : \E bound \in BOOLEAN :
          /\ call.await = "status_get"
          /\ response.kind # "ok" => Len(errorMessages) < MaxErrors
          /\ response.kind = "ok" => bound
          /\ client' = getLoginStatus(response)
          /\ issued' = Known(response)
          /\ showLoginStatus(client', bound)
          /\ calls' = calls \ {call}
          /\ finished' = IF location = "index"
                         THEN [handler |-> call.handler,
                               failures |-> call.failures \cup FailureOf(response, client'),
                               banner |-> errorMessages']
                         ELSE finished
    /\ UNCHANGED <<location, loginText, session, lastPost, tokenGet>>
    /\ LoginFrame

\* loginoutUser on a button named "login": window.location.href = "login.html"
GoToLoginPage ==
    /\ location = "index"
    /\ loginoutButton = "login"
    /\ OpenPage("login")
    /\ UNCHANGED <<session, issued>>
    /\ LoginFrame

\* login and logout up to their first await: the GET for a token when none
\* is held, else the POST
StartTokenCall(handler, name) ==
    IF NoTokenHeld(client)
    THEN /\ calls' = calls \cup {[handler |-> handler, await |-> name \o "_get",
                                  failures |-> {}]}
         /\ UNCHANGED lastPost
    ELSE /\ calls' = calls \cup {[handler |-> handler, await |-> name \o "_post",
                                  failures |-> {}]}
         /\ lastPost' = Post("api/" \o name, client, issued)

\* loginoutUser on a button named "logout", up to the first await of logout
ClickLogout ==
    /\ location = "index"
    /\ loginoutButton = "logout"
    /\ Cardinality(calls) < MaxCalls
    /\ StartTokenCall("loginoutUser", "logout")
    /\ UNCHANGED <<location, client, loginoutButton, loginText, session, issued,
                   tokenGet, finished, errorMessages>>
    /\ LoginFrame

\* the Login button (or Enter) of the login page, up to the first await of login
ClickLoginSubmit ==
    /\ location = "login"
    /\ Cardinality(calls) < MaxCalls
    /\ StartTokenCall("login", "login")
    /\ UNCHANGED <<location, client, loginoutButton, loginText, session, issued,
                   tokenGet, finished, errorMessages>>
    /\ LoginFrame

\* the answer to the GET that login or logout issued for a token: on a
\* failure the Error thrown is caught and no POST is sent; logout is
\* followed by setLoginStatus, login by the text of login_text
TokenGetResponse ==
    /\ \E call \in calls : \E response \in GetLoginResponses :
          LET c1   == getLoginStatus(response)
              name == IF call.await = "logout_get" THEN "logout" ELSE "login"
          IN  /\ call.await \in {"logout_get", "login_get"}
              /\ issued' = Known(response)
              /\ IF c1.errorMessage # ""
                 THEN /\ client' = [c1 EXCEPT !.apiCSRFToken = ""]
                      /\ UNCHANGED lastPost
                      /\ IF name = "logout"
                         THEN /\ calls' = Suspended(call, "status_get",
                                                    FailureOf(response, c1))
                              /\ UNCHANGED loginText
                         ELSE /\ calls' = calls \ {call}
                              /\ loginText' = client'.errorMessage
                 ELSE /\ client' = c1
                      /\ lastPost' = Post("api/" \o name, c1, Known(response))
                      /\ calls' = Suspended(call, name \o "_post", {})
                      /\ UNCHANGED loginText
              /\ tokenGet' = [failed |-> response.kind # "ok",
                              posted |-> c1.errorMessage = "",
                              message |-> c1.errorMessage,
                              reported |-> client'.errorMessage]
    /\ UNCHANGED <<location, loginoutButton, session, finished, errorMessages>>
    /\ LoginFrame

\* the answer to the POST of logout: loginoutUser goes on to setLoginStatus
LogoutPostResponse ==
    /\ \E call \in calls : \E response \in {[kind |-> "ok", status |-> 200, json |-> NoJson]} \cup FailedResponses({500}) :
          /\ call.await = "logout_post"
          /\ client' = logoutPosted(client, response)
          /\ session' = IF response.kind = "ok" THEN "" ELSE session
          /\ calls' = Suspended(call, "status_get", FailureOf(response, client'))
    /\ UNCHANGED <<location, loginoutButton, loginText, issued, lastPost, tokenGet,
                   finished, errorMessages>>
    /\ LoginFrame

\* the answer to the POST of login: the login page shows the failure, or
\* goes back to the main page
LoginPostResponse ==
    /\ \E call \in calls : \E response \in PostLoginResponses :
          LET c1 == loginPosted(client, response)
          IN  /\ call.await = "login_post"
              /\ session' = IF response.kind = "ok" THEN response.json.user ELSE session
              /\ issued' = Known(response)
              /\ IF c1.errorMessage # "" \/ c1.loginUser = ""
                 THEN /\ client' = c1
                      /\ loginText' = IF c1.errorMessage # "" THEN c1.errorMessage
                                      ELSE "Login failed"
                      /\ calls' = calls \ {call}
                      /\ UNCHANGED <<location, loginoutButton, lastPost, tokenGet,
                                     finished, errorMessages>>
                 ELSE OpenPage("index")
    /\ LoginFrame

NextLogin ==
    \/ StatusResponse
    \/ GoToLoginPage
    \/ ClickLogout
    \/ ClickLoginSubmit
    \/ TokenGetResponse
    \/ LogoutPostResponse
    \/ LoginPostResponse

SpecLogin == InitLogin /\ [][NextLogin]_vars

(***************************************************************************)
(* SpecBackup: the daily cron job that backs up the databases, in its two  *)
(* versions (db/archive_db_backup.sh: metadata only; metadata and django)  *)
(***************************************************************************)
\* find -mtime +7: files last modified more than 7 whole days ago
KeepDays == 7

\* pg_dump ... | gzip > file as an if condition.  The status of a pipeline
\* is that of its last command: when the redirection creates the file and
\* gzip can write it the status is 0, whatever pg_dump's status was
PipelineSucceeds(pgDump, write) == write = "written"

\* [[ -s file ]] after the pipeline: gzip writes its header even when
\* pg_dump gave it nothing
DumpNonEmpty(write) == write = "written"

\* the files find -mtime +N -type f -delete removes
FindOlder(files, days) == {age \in files : age > days}

\* the directory after a pipeline: the redirection creates the file unless
\* the directory cannot be written
AfterDump(files, write) == IF write = "not_created" THEN files ELSE files \cup {0}

\* the script for both databases reaches its find command: both pipelines
\* succeed, $metadata_file is not empty, and [[ -s $file ]] holds.  The
\* script never sets file: the test fails unless the environment of the
\* job exports a variable file that names a non-empty file
DeletesOldBackups(metaWrite, djangoWrite, fileVarNonEmpty) ==
    /\ PipelineSucceeds("ok", metaWrite)
    /\ DumpNonEmpty(metaWrite)
    /\ PipelineSucceeds("ok", djangoWrite)
    /\ fileVarNonEmpty


\* a run of the script that backs up the metadata and the django database
RunBackupBoth ==
    /\ \E metaDump \in {"ok", "failed"}, metaWrite \in {"written", "gzip_failed", "not_created"},
          djangoDump \in {"ok", "failed"}, djangoWrite \in {"written", "gzip_failed", "not_created"},
          fileVarNonEmpty \in BOOLEAN :
          LET djangoRuns == PipelineSucceeds(metaDump, metaWrite) /\ DumpNonEmpty(metaWrite)
              files == IF djangoRuns
                       THEN AfterDump(AfterDump(backups, metaWrite), djangoWrite)
                       ELSE AfterDump(backups, metaWrite)
              finds == djangoRuns /\ DeletesOldBackups(metaWrite, djangoWrite, fileVarNonEmpty)
          IN  /\ backups' = IF finds THEN files \ FindOlder(files, KeepDays) ELSE files
              /\ bkRun' = [script |-> "metadata and django",
                           metadata |-> (metaDump = "ok" /\ metaWrite = "written"),
                           django |-> djangoRuns /\ (djangoDump = "ok" /\ djangoWrite = "written"),
                           deleted |-> files \ backups',
                           kept |-> backups']
    /\ UNCHANGED <<pgVars, dateVars, uiVars, buildVars, loginVars>>

\* a run of db/archive_db_backup.sh, which backs up the metadata database
RunBackupMetadata ==
    /\ \E metaDump \in {"ok", "failed"}, metaWrite \in {"written", "gzip_failed", "not_created"} :
          LET files == AfterDump(backups, metaWrite)
              finds == PipelineSucceeds(metaDump, metaWrite) /\ DumpNonEmpty(metaWrite)
          IN  /\ backups' = IF finds THEN files \ FindOlder(files, KeepDays) ELSE files
              /\ bkRun' = [script |-> "metadata",
                           metadata |-> (metaDump = "ok" /\ metaWrite = "written"),
                           django |-> FALSE,
                           deleted |-> files \ backups',
                           kept |-> backups']
    /\ UNCHANGED <<pgVars, dateVars, uiVars, buildVars, loginVars>>

\* a day passes: every file is a day older
DayPasses ==
    /\ backups # {}
    /\ backups' = {IF age < MaxAge THEN age + 1 ELSE age : age \in backups}
    /\ UNCHANGED bkRun
    /\ UNCHANGED <<pgVars, dateVars, uiVars, buildVars, loginVars>>

NextBackup == RunBackupBoth \/ RunBackupMetadata \/ DayPasses

SpecBackup == Init /\ [][NextBackup]_vars

(***************************************************************************)
(* SpecDate: the observation-date values of a query                        *)
(***************************************************************************)
InitDate ==
    /\ dateSearchValues \in {<<>>} \cup {<<a>> : a \in EnteredDates}
                            \cup {<<a, b>> : a, b \in EnteredDates}
    /\ dateResult = <<>>
    /\ datePc = "input"
    /\ PagesIdle
    /\ UiIdle
    /\ BuildIdle
    /\ LoginIdle
    /\ BackupIdle

\* buildQueryParams hands the entered values to buildObsDateSearchValues
BuildObsDate ==
    /\ datePc = "input"
    /\ dateResult' = buildObsDateSearchValues(dateSearchValues)
    /\ datePc' = "done"
    /\ UNCHANGED dateSearchValues
    /\ UNCHANGED <<pgVars, uiVars, buildVars, loginVars, bkVars>>

\* the user exchanges the two entered dates and the query is built again
ExchangeDates ==
    /\ datePc = "done"
    /\ Len(dateSearchValues) = 2
    /\ dateSearchValues' = <<dateSearchValues[2], dateSearchValues[1]>>
    /\ dateResult' = buildObsDateSearchValues(dateSearchValues')
    /\ UNCHANGED datePc
    /\ UNCHANGED <<pgVars, uiVars, buildVars, loginVars, bkVars>>

NextDate == BuildObsDate \/ ExchangeDates

SpecDate == InitDate /\ [][NextDate]_vars

(***************************************************************************)
(* SpecPages: the page controls of a result of totalPages pages            *)
(***************************************************************************)
InitPages ==
    /\ pgTotal \in 1..MaxPages
    /\ pgCurrent \in 1..pgTotal
    /\ pageList = <<>>
    /\ pgPc = "input"
    /\ pgBuilt = [built |-> FALSE, queryParams |-> <<>>, count |-> 0,
                  next |-> <<>>, previous |-> <<>>,
                  controls |-> [prev |-> "", pages |-> <<>>, current |-> 0, next |-> ""]]
    /\ DateIdle
    /\ UiIdle
    /\ BuildIdle
    /\ LoginIdle
    /\ BackupIdle

\* buildPageControls builds the controls of the page that is shown
BuildPageList ==
    /\ pgPc = "input"
    /\ pageList' = determinePages(pgCurrent, pgTotal, MaxControls, SurroundingControls)
    /\ pgPc' = "done"
    /\ UNCHANGED <<pgCurrent, pgTotal, pgBuilt>>
    /\ UNCHANGED <<dateVars, uiVars, buildVars, loginVars, bkVars>>

\* a page button other than the current page's is clicked: the query is
\* submitted for that page and the controls are rebuilt for it
ClickPageButton ==
    /\ pgPc = "done"
    /\ \E i \in DOMAIN pageList :
          /\ pageList[i] # "..."
          /\ Number(pageList[i]) # pgCurrent
          /\ pgCurrent' = Number(pageList[i])
          /\ pageList' = determinePages(Number(pageList[i]), pgTotal,
                                        MaxControls, SurroundingControls)
    /\ UNCHANGED <<pgTotal, pgPc, pgBuilt>>
    /\ UNCHANGED <<dateVars, uiVars, buildVars, loginVars, bkVars>>

NextPages == BuildPageList \/ ClickPageButton

SpecPages == InitPages /\ [][NextPages]_vars

(***************************************************************************)
(* SpecControls: buildPageControls on the answers a results query can get  *)
(***************************************************************************)
\* showResults calls buildPageControls with the queryParams of the query and
\* the JSON of its answer.  count, next and previous are what the backend
\* sent: a link or null each, whatever the page and page size asked for
BuildControls ==
    /\ \E page \in 1..MaxShownPage, page_size \in 1..MaxPageSize, count \in 1..MaxCount,
          hasNext \in BOOLEAN, hasPrevious \in BOOLEAN :
          LET queryParams == <<Scalar("page_size", ToString(page_size)),
                               Scalar("page", ToString(page))>>
              queryURL == queryParamsToString(queryParams)
              jsonResults == [hasError |-> FALSE, error |-> "", count |-> count,
                              next |-> IF hasNext THEN WithPage(queryURL, page + 1) ELSE NULL,
                              previous |-> IF hasPrevious THEN WithPage(queryURL, page - 1)
                                           ELSE NULL,
                              results |-> <<>>]
          IN  pgBuilt' = [built |-> TRUE, queryParams |-> queryParams, count |-> count,
                          next |-> jsonResults.next, previous |-> jsonResults.previous,
                          controls |-> buildPageControls(queryParams, jsonResults)]
    /\ UNCHANGED <<pgCurrent, pgTotal, pageList, pgPc>>
    /\ UNCHANGED <<dateVars, uiVars, buildVars, loginVars, bkVars>>

NextControls == BuildControls

SpecControls == Init /\ [][NextControls]_vars

(***************************************************************************)
(* Claims about determinePages                                             *)
(***************************************************************************)
EllipsisAt == {i \in DOMAIN pageList : pageList[i] = "..."}

\* C1: for every totalPages >= 1 and currentPage in 1..totalPages the list
\* starts with "1" and, when totalPages > 1, ends with the last page number.
C1_FirstAndLast ==
    pgPc = "done" =>
        /\ Len(pageList) >= 1
        /\ pageList[1] = "1"
        /\ pgTotal > 1 => pageList[Len(pageList)] = ToString(pgTotal)

C1_Witness ==
    /\ pgPc = "done"
    /\ pgTotal > MaxControls + 2
    /\ pgCurrent + SurroundingControls >= pgTotal
    /\ pageList[Len(pageList)] = ToString(pgTotal)

\* C6 (as claimed): the number of visible controls of the list, page numbers
\* and ellipses together, never exceeds maxControls.
C6_AtMostMaxControls ==
    pgPc = "done" => Len(pageList) <= MaxControls

\* C7: the list holds the current page and every page within
\* surroundingControls of it that exists.
C7_SurroundingShown ==
    pgPc = "done" =>
        \A p \in 1..pgTotal :
            (p - pgCurrent <= SurroundingControls /\ pgCurrent - p <= SurroundingControls)
                => \E i \in DOMAIN pageList : pageList[i] = ToString(p)

C7_Witness ==
    /\ pgPc = "done"
    /\ pgTotal > MaxControls + 2
    /\ pgCurrent = (MaxControls - 2 - SurroundingControls) + 1
    /\ \E i \in DOMAIN pageList : pageList[i] = ToString(pgCurrent + SurroundingControls)

\* C8: two page numbers that are neighbours in the list, with no ellipsis
\* between them, are consecutive integers.
C8_EllipsisWhereSkipped ==
    pgPc = "done" =>
        \A i \in 1..(Len(pageList) - 1) :
            (pageList[i] # "..." /\ pageList[i + 1] # "...")
                => Number(pageList[i + 1]) = Number(pageList[i]) + 1

C8_Witness ==
    /\ pgPc = "done"
    /\ Cardinality(EllipsisAt) = 2
    /\ \E i \in 1..(Len(pageList) - 1) : pageList[i] # "..." /\ pageList[i + 1] # "..."

DateLater(a, b) ==
    \/ a.y > b.y
    \/ a.y = b.y /\ a.m > b.m
    \/ a.y = b.y /\ a.m = b.m /\ a.d > b.d

\* instant t lies within the returned interval [start, end]
InReturned(t) ==
    /\ TimeLE(FromISOString(dateResult[1]), t)
    /\ TimeLE(t, FromISOString(dateResult[2]))

\* 12:00:00 UTC-8 on the day dayNumber, which is 20:00:00 UTC
NoonOfDay(dayNumber) == [day |-> dayNumber, ms |-> 20 * MsPerHour]

\* C3: a single entered date D gives exactly two instants [start, end]: start
\* is 12:00:00 UTC-8 on D, every millisecond from start up to but excluding
\* 12:00:00 UTC-8 of the next day lies in [start, end], and no instant from
\* that next noon on does (end is the last millisecond before it).
C3_SingleDateInterval ==
    (datePc = "done" /\ Len(dateSearchValues) = 1) =>
        LET D        == dateSearchValues[1]
            noon     == NoonOfDay(DaysFromCivil(D.y, D.m, D.d))
            nextNoon == NoonOfDay(DaysFromCivil(D.y, D.m, D.d) + 1)
        IN  /\ Len(dateResult) = 2
            /\ dateResult[1] = [year |-> D.y, month |-> D.m, day |-> D.d,
                                hour |-> 20, minute |-> 0, second |-> 0, millis |-> 0]
            /\ FromISOString(dateResult[2]) = TimePlus(noon, MsPerDay - 1)
            /\ \A k \in 0..2 : InReturned(TimePlus(noon, k))
            /\ \A k \in 1..3 : InReturned(TimePlus(noon, MsPerDay - k))
            /\ \A k \in 0..2 : ~InReturned(TimePlus(nextNoon, k))

C3_Witness ==
    /\ datePc = "done"
    /\ dateSearchValues = <<[y |-> 2020, m |-> 2, d |-> 29]>>
    /\ Len(dateResult) = 2
    /\ dateResult[2].month = 3
    /\ dateResult[2].day = 1

\* C4: two distinct dates entered with the start later than the end are
\* swapped: the two returned values are in ascending time order and are the
\* values returned when the dates are entered in the opposite order.
C4_ReversedRangeSwapped ==
    (/\ datePc = "done"
     /\ Len(dateSearchValues) = 2
     /\ DateLater(dateSearchValues[1], dateSearchValues[2])) =>
        /\ Len(dateResult) = 2
        /\ TimeGT(FromISOString(dateResult[2]), FromISOString(dateResult[1]))
        /\ dateResult =
             buildObsDateSearchValues(<<dateSearchValues[2], dateSearchValues[1]>>)

C4_Witness ==
    /\ datePc = "done"
    /\ dateSearchValues = <<[y |-> 2020, m |-> 1, d |-> 2], [y |-> 2019, m |-> 12, d |-> 31]>>
    /\ dateResult[1].year = 2019
    /\ dateResult[2].year = 2020

\* C5 (as claimed): a range D1 <= D2 is inclusive of both dates: the returned
\* interval holds every instant of the single-date search for D1 and every
\* instant of the single-date search for D2.
C5_RangeInclusive ==
    (/\ datePc = "done"
     /\ Len(dateSearchValues) = 2
     /\ ~DateLater(dateSearchValues[1], dateSearchValues[2])) =>
        \A i \in 1..2 :
            LET single == buildObsDateSearchValues(<<dateSearchValues[i]>>)
            IN  /\ InReturned(FromISOString(single[1]))
                /\ InReturned(FromISOString(single[2]))

(***************************************************************************)
(* Claims about Download All                                               *)
(***************************************************************************)
\* the filenames of the fetched pages, in fetch order
RECURSIVE ConcatNames(_)
ConcatNames(fetched) ==
    IF Len(fetched) = 0 THEN <<>>
    ELSE Head(fetched).names \o ConcatNames(Tail(fetched))

\* C2: when no request fails, downloadAll fetches the first page of the query
\* and then each URL the previous response gave as next, stopping at the first
\* response whose next is null; the list passed to submitDownload is the
\* concatenation, in fetch order, of the filenames of every fetched page, and
\* no page is fetched twice.
C2_DownloadAllFollowsNext ==
    dl.pc \in {"fetching", "submitted"} =>
        LET f == dl.fetched
            n == Len(dl.fetched)
        IN  /\ n >= 1 => /\ f[1].url = queryParamsToString(dl.queryParams)
                         /\ UrlParam(f[1].url, "page") = "1"
            /\ \A i \in 2..n : f[i].url = f[i - 1].next
            /\ \A i \in 1..(n - 1) : f[i].next # NULL
            /\ \A i, j \in 1..n : i # j => f[i].url # f[j].url
            /\ dl.filenames = ConcatNames(f)
            /\ dl.pc = "submitted" => (n >= 1 /\ f[n].next = NULL)
            /\ (dl.pc = "fetching" /\ n >= 1) =>
                   (f[n].next # NULL /\ dl.queryURL = f[n].next)

C2_Witness ==
    /\ dl.pc = "submitted"
    /\ Len(dl.fetched) = 2
    /\ dl.filenames = <<FileName(1), FileName(2), FileName(3)>>

\* the search fields, operators, values and filters of a query
SearchPart(queryParams) ==
    {queryParams[i] : i \in {j \in DOMAIN queryParams :
                                queryParams[j].kind = "term"
                                \/ queryParams[j].key = "filters"}}

\* C10 (as claimed): whatever the user did after the results were displayed,
\* the query Download All runs has the search fields, operators, values and
\* filters of the query whose results are shown.
C10_DownloadAllRunsShownQuery ==
    dl.pc # "idle" => SearchPart(dl.queryParams) = SearchPart(dl.displayed)

(***************************************************************************)
(* Claims about row selection and Download Selected                        *)
(***************************************************************************)
\* the k-th checked row, counted from the top of the table
KthChecked(checks, k) ==
    CHOOSE i \in DOMAIN checks :
        checks[i] /\ Cardinality({j \in 1..i : checks[j]}) = k

\* C11: the checkbox of row i maps through latestQueryResults to the file
\* that row i shows, and Download Selected submits exactly the filenames of
\* the rows that were checked in the displayed table, in row order
C11_DownloadSelectedRows ==
    /\ Len(resultCheckboxes) = Len(tableRows)
    /\ Len(latestQueryResults) = Len(tableRows)
    /\ \A i \in DOMAIN tableRows :
          latestQueryResults[CheckboxIndex(i)].filename = tableRows[i]
    /\ sel.pc # "idle" =>
          /\ Len(sel.filenames) = Cardinality({i \in DOMAIN sel.checks : sel.checks[i]})
          /\ \A k \in DOMAIN sel.filenames :
                sel.filenames[k] = sel.rows[KthChecked(sel.checks, k)]

\* a download of the second of two rows, submitted while another query was
\* still awaiting its response
C11_Witness ==
    /\ sel.pc = "submitted"
    /\ sel.checks = <<FALSE, TRUE>>
    /\ sel.filenames = <<sel.rows[2]>>
    /\ inflight # {}

\* C19: while the results table is shown, Download Selected is disabled
\* exactly when no row checkbox of the table is checked
C19_DisabledIffNoneChecked ==
    ~tableHidden =>
        (downloadSelectedDisabled <=> \A i \in DOMAIN resultCheckboxes : ~resultCheckboxes[i])

(***************************************************************************)
(* Claims about the requests and the answers of the main page              *)
(***************************************************************************)
\* everything of a query but its page option
AllButPage(queryParams) ==
    {queryParams[i] : i \in {j \in DOMAIN queryParams : queryParams[j].key # "page"}}

\* C20 (as claimed): a request for another page than the first comes from a
\* page-number, previous or next button; it is the query whose results were
\* displayed at the click with only the page option changed
C20_PageButtonKeepsQuery ==
    \A req \in inflight :
        MapGet(req.queryParams, "page").values[1] # "1" =>
            AllButPage(req.queryParams) = AllButPage(req.displayed)

\* C16 (as claimed): whenever the answer to a query carries an error payload
\* {error: msg}, whatever its HTTP status, the text added to the banner is msg
C16_ErrorPayloadVerbatim ==
    answered.payloadError # "" => answered.shown = answered.payloadError

\* C16 (amended): an error payload {error: msg} that comes with an OK status
\* is added to the banner as exactly msg; an answer with a non-OK status
\* adds "Archive server returned error code <status>" whatever its payload
C16_ErrorPayloadOfOkAnswer ==
    /\ (answered.status = 200 /\ answered.payloadError # "") =>
           answered.shown = answered.payloadError
    /\ answered.status \notin {0, 200} =>
           answered.shown = "Archive server returned error code "
                            \o ToString(answered.status)
    /\ answered.shown # "" =>
           \E i \in DOMAIN errorMessages : errorMessages[i] = answered.shown

C16_Witness ==
    /\ answered.status = 200
    /\ answered.payloadError = "Invalid query"
    /\ errorMessages = <<"Invalid query">>

(***************************************************************************)
(* Claims about the query built from the search form                       *)
(***************************************************************************)
QueryBuilt == builtQuery.queryURL # <<>>

\* C12: the built query has an entry for a primary search field exactly when
\* the checkbox query_by_<field> was checked when the query was built
C12_FieldIffChecked ==
    QueryBuilt =>
        \A i \in DOMAIN SearchFields :
            /\ MapHas(builtQuery.queryParams, SearchFields[i])
                   <=> builtQuery.form.query_by[SearchFields[i]]
            /\ UrlHas(builtQuery.queryURL, SearchFields[i])
                   <=> builtQuery.form.query_by[SearchFields[i]]

\* a query of two of the four fields
C12_Witness ==
    /\ QueryBuilt
    /\ builtQuery.form.query_by = [object |-> FALSE, obs_date |-> TRUE,
                                   filename |-> FALSE, coord |-> TRUE]
    /\ MapHas(builtQuery.queryParams, "coord")
    /\ ~MapHas(builtQuery.queryParams, "object")

\* C13 (as claimed): every query request carries at least one of the four
\* primary search fields
C13_AtLeastOneField ==
    QueryBuilt => \E i \in DOMAIN SearchFields : UrlHas(builtQuery.queryURL, SearchFields[i])

\* the position of an instrument in the document
InstrumentPosition(key) == CHOOSE i \in DOMAIN InstrumentOrder : InstrumentOrder[i] = key

\* C14: filters is "instrument" followed by exactly the values of the checked
\* instrument checkboxes that are not categories, in document order; a
\* category is never sent, and a checked category has all its members sent
C14_FiltersAreInstruments ==
    QueryBuilt =>
        LET filters == MapGet(builtQuery.queryParams, "filters").values
            sent    == {filters[i] : i \in 2..Len(filters)}
            checked == builtQuery.form.instrument
        IN  /\ MapHas(builtQuery.queryParams, "filters")
            /\ filters[1] = "instrument"
            /\ sent = {k \in DOMAIN checked : checked[k] /\ ~InstrumentIsCategory(k)}
            /\ Cardinality(sent) = Len(filters) - 1
            /\ \A i, j \in 2..Len(filters) :
                  i < j => InstrumentPosition(filters[i]) < InstrumentPosition(filters[j])
            /\ \A k \in DOMAIN checked :
                  (checked[k] /\ InstrumentIsCategory(k)) =>
                      /\ k \notin sent
                      /\ \A c \in DOMAIN InstrumentChildren(k) :
                            InstrumentChildren(k)[c] \in sent
            /\ UrlParam(builtQuery.queryURL, "filters") = JoinComma(filters)

\* the category and its two members are checked, the other instrument is not
C14_Witness ==
    /\ QueryBuilt
    /\ builtQuery.form.instrument = [KAST |-> TRUE, KAST_BLUE |-> TRUE,
                                     KAST_RED |-> TRUE, SHARCS |-> FALSE]
    /\ MapGet(builtQuery.queryParams, "filters").values
           = <<"instrument", "KAST_BLUE", "KAST_RED">>

(***************************************************************************)
(* Claims about login, logout and the error banner                         *)
(***************************************************************************)
\* C15 (as claimed): when a handler of the main page has finished, the
\* message of every backend call it issued that failed with a network error
\* or a non-OK status is in the error banner
C15_FailuresInBanner ==
    \A m \in finished.failures :
        \E i \in DOMAIN finished.banner : finished.banner[i] = m

\* C17: every POST to api/login or api/logout carries a token that the
\* backend returned in an earlier response; a client without a token issues
\* GET api/login first, and when that GET fails no POST is sent and
\* errorMessage reports the failure
C17_PostCarriesReturnedToken ==
    /\ lastPost.url # "" =>
          /\ lastPost.url \in {"api/login", "api/logout"}
          /\ lastPost.token \in Tokens
          /\ lastPost.returned
    /\ \A call \in calls :
          call.await \in {"login_post", "logout_post"} => lastPost.url # ""
    /\ tokenGet.failed =>
          /\ ~tokenGet.posted
          /\ tokenGet.message # ""
          /\ tokenGet.reported = tokenGet.message
    /\ (tokenGet.message # "" \/ tokenGet.posted) =>
          (tokenGet.posted <=> ~tokenGet.failed)

\* a logout was posted with a held token, and a later logout of a client
\* without a token failed at its GET
C17_Witness ==
    /\ lastPost.url = "api/logout"
    /\ lastPost.returned
    /\ tokenGet.failed
    /\ ~tokenGet.posted
    /\ client.errorMessage = tokenGet.message

(***************************************************************************)
(* Claims about the backup script                                          *)
(***************************************************************************)
\* the dumps of the last run succeeded: the metadata dump and, in the
\* script that makes one, the django dump
DumpsSucceeded ==
    bkRun.metadata /\ (bkRun.script = "metadata and django" => bkRun.django)

\* C18 (as claimed): a run of the backup script in which the dumps succeed
\* (and the dump file is not empty) leaves no file older than 7 days in
\* the backup directory; a run in which a dump fails deletes nothing
C18_OldBackupsDeleted ==
    bkRun.script # "" =>
        /\ DumpsSucceeded => \A age \in bkRun.kept : age <= KeepDays
        /\ ~DumpsSucceeded => bkRun.deleted = {}

(***************************************************************************)
(* Claims about buildPageControls                                          *)
(***************************************************************************)
\* totalPages as buildPageControls computes it for the call in pgBuilt
BuiltTotalPages ==
    LET page_size == Number(MapGet(pgBuilt.queryParams, "page_size").values[1])
    IN  (pgBuilt.count + page_size - 1) \div page_size

\* C21 (as claimed): the next control is disabled whenever currentPage + 1 >
\* totalPages or the next link is null, and the previous control is disabled
\* whenever currentPage - 1 < 1 or the previous link is null
C21_InvalidPageDisabled ==
    pgBuilt.built =>
        /\ (pgBuilt.controls.current + 1 > BuiltTotalPages \/ pgBuilt.next = NULL)
               => pgBuilt.controls.next = ""
        /\ (pgBuilt.controls.current - 1 < 1 \/ pgBuilt.previous = NULL)
               => pgBuilt.controls.prev = ""

(***************************************************************************)
(* Claims about the result fields of a query                               *)
(***************************************************************************)
\* no <field>_result checkbox was checked when the query was built
NoResultChecked ==
    \A i \in DOMAIN ResultCheckboxes : ~builtQuery.form.result[ResultCheckboxes[i]]

\* C22 (as claimed): a results query built with no result field checked asks
\* for the default fields filename, download_link, obs_date
C22_DefaultResultFields ==
    (QueryBuilt /\ ~builtQuery.form.id_count_0 /\ NoResultChecked)
        => MapGet(builtQuery.queryParams, "results").values
              = <<"filename", "download_link", "obs_date">>

(***************************************************************************)
(* Claims about the observation-date search                                *)
(***************************************************************************)
\* C23 (as claimed): the same date entered as start and end of a range gives
\* the two values that the date gives when it is entered alone
C23_SameDateAsSingle ==
    (/\ datePc = "done"
     /\ Len(dateSearchValues) = 2
     /\ dateSearchValues[1] = dateSearchValues[2]) =>
        dateResult = buildObsDateSearchValues(<<dateSearchValues[1]>>)

\* C24 (as claimed): a query built while the observation-date operator is not
\* "in" searches for the single date of the first date control, whatever the
\* second (hidden) date control still holds
C24_HiddenDateNotSearched ==
    (/\ QueryBuilt
     /\ builtQuery.form.query_by.obs_date
     /\ SecondDateHidden(builtQuery.form)
     /\ builtQuery.form.search_date[1] # NoDate) =>
        LET single == buildObsDateSearchValues(<<builtQuery.form.search_date[1]>>)
        IN  /\ Len(single) = 2
            /\ MapGet(builtQuery.queryParams, "obs_date")
                  = Term("obs_date", "in", <<ISOText(single[1]), ISOText(single[2])>>)

(***************************************************************************)
(* Claims about the instrument checkboxes                                  *)
(***************************************************************************)
\* every child checkbox of the category key is checked
AllChildrenChecked(key) ==
    \A c \in DOMAIN InstrumentChildren(key) : form.instrument[InstrumentChildren(key)[c]]

\* C25: a category checkbox is checked exactly when all the checkboxes of
\* its child instruments are checked
C25_CategoryIffAllChildren ==
    \A i \in DOMAIN InstrumentOrder :
        InstrumentIsCategory(InstrumentOrder[i]) =>
            (form.instrument[InstrumentOrder[i]] <=> AllChildrenChecked(InstrumentOrder[i]))

\* one child of Kast was unchecked by a click: the category is unchecked
\* while its other child is still checked
C25_Witness ==
    /\ ~form.instrument["KAST"]
    /\ form.instrument["KAST_RED"]
    /\ ~form.instrument["KAST_BLUE"]

(***************************************************************************)
(* Claims about failures of Download All                                   *)
(***************************************************************************)
\* C26: when a page request of downloadAll is answered with an error (a
\* status that is not OK, an error payload, or a failed fetch), the error is
\* appended to the banner and the call ends without submitDownload; a call
\* that ended so requests nothing more and submits nothing: only a new
\* click on Download All, which starts from an empty list, changes it
C26_FailedDownloadStops ==
    [][/\ (/\ dl.pc = "fetching"
           /\ dl' # dl
           /\ (answered'.status # 200 \/ answered'.payloadError # ""))
          => /\ dl'.pc = "failed"
             /\ answered'.shown # ""
             /\ errorMessages' = Append(errorMessages, answered'.shown)
       /\ dl.pc = "failed"
          => \/ dl' = dl
             \/ /\ dl'.pc = "fetching"
                /\ dl'.fetched = <<>>
                /\ dl'.filenames = <<>>]_vars

\* the request for the second page failed after the first page brought
\* filenames: the banner shows the error and nothing was submitted
C26_Witness ==
    /\ dl.pc = "failed"
    /\ Len(dl.fetched) = 1
    /\ Len(dl.filenames) > 0
    /\ answered.status # 200
    /\ errorMessages = <<answered.shown>>

(***************************************************************************)
(* Claims about queries that wait for their answers together               *)
(***************************************************************************)
\* C27 (as claimed): once every submitted query is answered, a results
\* table that is shown is the answer to the query that was submitted last
C27_LatestQueryShown ==
    (inflight = {} /\ answered.latest # <<>> /\ ~tableHidden)
        => shownQuery = answered.latest

(***************************************************************************)
(* Claims about a failed login                                             *)
(***************************************************************************)
\* the calls of LickArchiveClient.login that have not returned
LoginCalls(suspended) == {call \in suspended : call.handler = "login"}

\* C28 (as claimed): when a call of login returns and leaves an errorMessage,
\* the client holds no loginUser and no apiCSRFToken
C28_FailedLoginClearsClient ==
    [][(/\ Cardinality(LoginCalls(calls')) < Cardinality(LoginCalls(calls))
        /\ client'.errorMessage # "")
          => (client'.loginUser = "" /\ client'.apiCSRFToken = "")]_vars
====
